---- MODULE Spec2Model ----
(***************************************************************************)
(* Model of src/Thermostat.py: the TemperatureMachine state machine        *)
(* (off/heat/cool), its setPoint, the two PWM LEDs, the three button       *)
(* callbacks and the display thread manageMyDisplay.                       *)
(*                                                                         *)
(* Two threads of control run the program's code.  "display" is the thread *)
(* started by TemperatureMachine.run; "button" is the thread on which      *)
(* gpiozero delivers when_pressed callbacks.  The source takes no lock, so *)
(* every access to shared data (current_state, setPoint, redLight,         *)
(* blueLight, endDisplay) is a step of its own and steps of the two        *)
(* threads interleave freely.  SpecOverlap adds "button2", a second        *)
(* callback thread, for callbacks of two buttons delivered at once.        *)
(*                                                                         *)
(* Temperatures are fixed-point: the sensor yields milli-degrees Celsius,  *)
(* getFahrenheit yields milli-degrees Fahrenheit.                          *)
(***************************************************************************)
EXTENDS Integers, FiniteSets, Sequences, TLC

\* ------------------------------------------------------------------ bounds
MaxTick == 31          \* display-loop iterations explored by Spec
MaxTickSeq == 90       \* display-loop iterations explored by SpecSeq
MaxPresses == 3        \* button presses explored by Spec
MaxPressesSeq == 3     \* button presses explored by SpecSeq
MaxTickRuns == 21      \* iterations explored by SpecRuns and SpecNoDebug
MaxPressesRuns == 3    \* button presses explored by SpecRuns and SpecNoDebug
MaxPressesOverlap == 3 \* button presses explored by SpecOverlap

\* What thSensor.temperature may return (milli-degrees Celsius):
\* 71.898F, 72.399F and 88.250F once converted; 31.25C is a value the
\* sensor's 20-bit scale yields exactly, and 88.25 is a value a float holds
\* exactly.
Readings == {22166, 22444, 31250}

\* ------------------------------------------------------- program constants
InitialSetPoint == 72
TempLines == 6         \* altCounter < 6 shows the temperature line
AltWindow == 11        \* altCounter >= 11 resyncs the lights and restarts
ReportEvery == 30      \* (counter % 30) == 0 sends the status report
DEBUG == TRUE

Threads == {"display", "button"}
\* the threads that run button callbacks when the callbacks of two buttons
\* are delivered at the same time
Callbacks == {"button", "button2"}
States == {"off", "heat", "cool"}
Lights == {"off", "on", "pulse"}

VARIABLES
    current_state,   \* tsm.current_state.id
    setPoint,        \* tsm.setPoint
    redLight,        \* the hot indicator: "off", "on" or "pulse"
    blueLight,       \* the cold indicator
    endDisplay,      \* tsm.endDisplay
    pc,              \* pc[t]: where thread t is
    temp,            \* temp[t]: updateLights' local temp (floor of the reading)
    sid,             \* sid[t]: the subject of updateLights' match statement
    cmd,             \* cmd[t]: the LED command updateLights decided on
    loaded,          \* loaded[t]: the value of self.setPoint that thread t's
                     \* += or -= has read and not yet written back (0: none)
    callback,        \* the button callback in progress ("none" if none)
    counter,         \* manageMyDisplay's counter
    altCounter,      \* manageMyDisplay's altCounter
    line_2,          \* manageMyDisplay's line_2 being composed
    output,          \* setupSerialOutput's string being composed
    screen,          \* which line the LCD shows on its second row
    tick,            \* number of loop iterations started so far
    updates,         \* number of screen.updateScreen calls so far
    sent,            \* ticks at which ser.write returned
    held,            \* every (current_state, setPoint) pair held so far
    cycles,          \* number of cycle events sent to the state machine
    presses,         \* number of button callbacks dispatched so far
    increases,       \* number of processTempIncButton callbacks among them
    quietTick,       \* the loop iteration in progress began with no callback
                     \* in progress, and none was dispatched since
    lastRun          \* the last updateLights call that returned: the mode,
                     \* setpoint and temperature it ran with, the command of
                     \* its match statement and the indicators it left
                     \* (kept by SpecRuns only)

vars == <<current_state, setPoint, redLight, blueLight, endDisplay, pc, temp,
          sid, cmd, loaded, callback, counter, altCounter, line_2, output,
          screen, tick,
          updates, sent, held, cycles, presses, increases, quietTick,
          lastRun>>

shared == <<current_state, setPoint, redLight, blueLight, endDisplay>>
loopVars == <<counter, altCounter, line_2, output, screen, tick, updates,
              sent>>
history == <<held, cycles, presses, increases, quietTick, lastRun>>
locals == <<temp, sid, cmd, loaded>>

\* a text not composed yet: kind is "T" (temperature line), "ST" (state and
\* setpoint line), "report" (serial message), "cleared" or "none"; id, temp
\* and sp are the values read for it, text the pieces of the f-string put
\* together so far (a temperature piece is a number of tenths: 882 is 88.2)
None == [kind |-> "none", id |-> "none", temp |-> 0, sp |-> 0, text |-> <<>>]

\* -------------------------------------------------------- pure functions
\* getFahrenheit: ((9/5) * t) + 32, on milli-degrees
getFahrenheit(t) == ((9 * t) \div 5) + 32000

\* math.floor of a milli-degree value, in whole degrees
floor(milli) == milli \div 1000

\* the format specification :0.1f with ties rounded up
format1fHalfUp(milli) ==
    IF milli % 100 >= 50 THEN (milli \div 100) + 1 ELSE milli \div 100

\* the format specification :0.1f of an f-string, on milli-degrees that the
\* float holds exactly: the nearest tenth, and for a tie (..50) the even one
\* (Python rounds the exact binary value half to even: 88.25 gives 88.2)
format1f(milli) ==
    LET tenths == milli \div 100
        rest == milli % 100
    IN  IF rest > 50 \/ (rest = 50 /\ tenths % 2 = 1)
          THEN tenths + 1
          ELSE tenths

\* cycle with its last edge wrong: cool.to(heat) instead of cool.to(off)
cycleSkipsOff(s) == CASE s = "off" -> "heat"
                      [] s = "heat" -> "cool"
                      [] s = "cool" -> "heat"

\* cycle = off.to(heat) | heat.to(cool) | cool.to(off)
cycle(s) == CASE s = "off" -> "heat"
              [] s = "heat" -> "cool"
              [] s = "cool" -> "off"

\* the heat branch with > for >=
HeatCommandStrict(t, sp) == IF t > sp THEN "on" ELSE "pulse"

\* the branch of updateLights' match statement: the command sent to the LED
\* of the current mode
HeatCommand(t, sp) == IF t >= sp THEN "on" ELSE "pulse"
CoolCommand(t, sp) == IF t <= sp THEN "on" ELSE "pulse"

\* lastRun when the calls of updateLights are not recorded, and when they
\* are but none has returned yet
Untracked == [id |-> "untracked", sp |-> 0, temp |-> 0, light |-> "none",
              cmd |-> "none", red |-> "off", blue |-> "off", repeat |-> 0]
NoRun == [Untracked EXCEPT !.id = "none"]

\* the state once the module has been loaded and tsm.run() has started the
\* display thread; threads are the threads that run code of the module,
\* runs is the initial lastRun
Start(threads, runs) ==
    /\ current_state = "off"
    /\ setPoint = InitialSetPoint
    /\ redLight = "off"
    /\ blueLight = "off"
    /\ endDisplay = FALSE
    /\ pc = [t \in threads |-> IF t = "display" THEN "top" ELSE "idle"]
    /\ temp = [t \in threads |-> 0]
    /\ sid = [t \in threads |-> "none"]
    /\ cmd = [t \in threads |-> "none"]
    /\ loaded = [t \in threads |-> 0]
    /\ callback = "none"
    /\ counter = 1
    /\ altCounter = 1
    /\ line_2 = None
    /\ output = None
    /\ screen = "cleared"
    /\ tick = 0
    /\ updates = 0
    /\ sent = {}
    /\ held = {<<"off", InitialSetPoint>>}
    /\ cycles = 0
    /\ presses = 0
    /\ increases = 0
    /\ quietTick = TRUE
    /\ lastRun = runs

Init == Start(Threads, Untracked)

\* ------------------------------------------------------------ exceptions
\* An exception nobody catches ends the display thread (manageMyDisplay has
\* no try/except): its pc becomes the error that ended it, "sensor_error" or
\* "serial_error".  In a button callback it ends that callback only.
Raise(t, error) ==
    /\ pc' = [pc EXCEPT ![t] = IF t = "display" THEN error ELSE "idle"]
    /\ callback' = IF t = "button" THEN "none" ELSE callback
    /\ temp' = [temp EXCEPT ![t] = 0]
    /\ sid' = [sid EXCEPT ![t] = "none"]
    /\ cmd' = [cmd EXCEPT ![t] = "none"]
    /\ UNCHANGED loaded

\* ----------------------------------------------------------- updateLights
\* Where updateLights returns to: the display thread resets altCounter and
\* goes on to update the screen, a button callback is over.
Return(t) ==
    /\ pc' = [pc EXCEPT ![t] = IF t = "display" THEN "screen" ELSE "idle"]
    /\ callback' = IF t = "button" THEN "none" ELSE callback
    /\ altCounter' = IF t = "display" THEN 1 ELSE altCounter
    /\ temp' = [temp EXCEPT ![t] = 0]
    /\ sid' = [sid EXCEPT ![t] = "none"]
    /\ cmd' = [cmd EXCEPT ![t] = "none"]
    /\ UNCHANGED loaded

\* updateLights returns on thread t having sent command c to indicator l
\* after the two off() calls, leaving the indicators as r and b; repeat
\* counts the calls in a row that ran with the same mode, setpoint and
\* temperature
Returned(t, l, c, r, b) ==
    /\ Return(t)
    /\ lastRun' =
          IF lastRun = Untracked
            THEN lastRun
            ELSE [id |-> current_state, sp |-> setPoint, temp |-> temp[t],
                  light |-> l, cmd |-> c, red |-> r, blue |-> b,
                  repeat |-> IF <<lastRun.id, lastRun.sp, lastRun.temp>> =
                                  <<current_state, setPoint, temp[t]>>
                               THEN lastRun.repeat + 1 ELSE 0]

\* temp = floor(self.getFahrenheit())
UpdateLightsRead(t) ==
    /\ pc[t] = "ul_temp"
    /\ \E r \in Readings :
          /\ temp' = [temp EXCEPT ![t] = floor(getFahrenheit(r))]
          /\ pc' = [pc EXCEPT ![t] = "ul_red"]
    /\ UNCHANGED <<callback, shared, sid, cmd, loopVars, history, loaded>>

\* thSensor.temperature raises inside updateLights
UpdateLightsReadFails(t) ==
    /\ pc[t] = "ul_temp"
    /\ Raise(t, "sensor_error")
    /\ UNCHANGED <<shared, loopVars, history>>

\* redLight.off()
UpdateLightsRedOff(t) ==
    /\ pc[t] = "ul_red"
    /\ redLight' = "off"
    /\ pc' = [pc EXCEPT ![t] = "ul_blue"]
    /\ UNCHANGED <<callback, current_state, setPoint, blueLight, endDisplay,
                   temp, sid, cmd, loopVars, history, loaded>>

\* a variant that calls blueLight.toggle() for blueLight.off()
UpdateLightsBlueToggle(t) ==
    /\ pc[t] = "ul_blue"
    /\ blueLight' = IF blueLight = "off" THEN "on" ELSE "off"
    /\ pc' = [pc EXCEPT ![t] = "ul_match"]
    /\ UNCHANGED <<altCounter, temp, sid, cmd, callback, current_state,
                   setPoint, redLight, endDisplay, counter, line_2, output,
                   screen, tick, updates, sent, history, loaded>>

\* blueLight.off(); the match statement is inside if(DEBUG), so that with
\* DEBUG false updateLights returns here
UpdateLightsBlueOffIf(t, debug) ==
    /\ pc[t] = "ul_blue"
    /\ blueLight' = "off"
    /\ IF debug
         THEN /\ pc' = [pc EXCEPT ![t] = "ul_match"]
              /\ UNCHANGED <<altCounter, temp, sid, cmd, callback, lastRun, loaded>>
         ELSE Returned(t, "none", "none", redLight, "off")
    /\ UNCHANGED <<current_state, setPoint, redLight, endDisplay, counter,
                   line_2, output, screen, tick, updates, sent, held, cycles,
                   presses, increases, quietTick>>

UpdateLightsBlueOff(t) == UpdateLightsBlueOffIf(t, DEBUG)

\* match self.current_state.id
UpdateLightsMatch(t) ==
    /\ pc[t] = "ul_match"
    /\ IF current_state \in {"heat", "cool"}
         THEN /\ sid' = [sid EXCEPT ![t] = current_state]
              /\ pc' = [pc EXCEPT ![t] = "ul_compare"]
              /\ UNCHANGED <<altCounter, temp, cmd, callback, lastRun, loaded>>
         ELSE Returned(t, "none", "none", redLight, blueLight)
    /\ UNCHANGED <<shared, counter, line_2, output, screen, tick, updates,
                   sent, held, cycles, presses, increases, quietTick>>

\* if (temp >= self.setPoint) / if (temp <= self.setPoint)
UpdateLightsCompare(t) ==
    /\ pc[t] = "ul_compare"
    /\ cmd' = [cmd EXCEPT ![t] = IF sid[t] = "heat"
                                   THEN HeatCommand(temp[t], setPoint)
                                   ELSE CoolCommand(temp[t], setPoint)]
    /\ pc' = [pc EXCEPT ![t] = "ul_command"]
    /\ UNCHANGED <<callback, shared, temp, sid, loopVars, history, loaded>>

\* redLight.on() / redLight.pulse() / blueLight.on() / blueLight.pulse()
UpdateLightsCommand(t) ==
    /\ pc[t] = "ul_command"
    /\ IF sid[t] = "heat"
         THEN redLight' = cmd[t] /\ UNCHANGED blueLight
         ELSE blueLight' = cmd[t] /\ UNCHANGED redLight
    /\ Returned(t, IF sid[t] = "heat" THEN "red" ELSE "blue", cmd[t],
                IF sid[t] = "heat" THEN cmd[t] ELSE redLight,
                IF sid[t] = "heat" THEN blueLight ELSE cmd[t])
    /\ UNCHANGED <<current_state, setPoint, endDisplay, counter, line_2,
                   output, screen, tick, updates, sent, held, cycles, presses,
                   increases, quietTick>>

\* -------------------------------------------------------- button callbacks
\* processTempStateButton: self.send("cycle") runs the exit action of the
\* source state first (on_exit_heat, on_exit_cool; off has none)
ProcessTempStateButton(max) ==
    /\ pc["button"] = "idle"
    /\ presses < max
    /\ presses' = presses + 1
    /\ callback' = "cycle"
    /\ cycles' = cycles + 1
    /\ quietTick' = FALSE
    /\ redLight' = IF current_state = "heat" THEN "off" ELSE redLight
    /\ blueLight' = IF current_state = "cool" THEN "off" ELSE blueLight
    /\ pc' = [pc EXCEPT !["button"] = "transition"]
    /\ UNCHANGED <<current_state, setPoint, endDisplay, temp, sid, cmd,
                   loopVars, held, increases, lastRun, loaded>>

\* the state machine moves to the target state, then runs its enter action:
\* on_enter_off, or updateLights for on_enter_heat and on_enter_cool
Transition ==
    /\ pc["button"] = "transition"
    /\ current_state' = cycle(current_state)
    /\ held' = held \cup {<<cycle(current_state), setPoint>>}
    /\ pc' = [pc EXCEPT !["button"] =
                 IF cycle(current_state) = "off" THEN "off_red" ELSE "ul_temp"]
    /\ UNCHANGED <<callback, setPoint, redLight, blueLight, endDisplay, temp,
                   sid, cmd, loopVars, cycles, presses, increases,
                   quietTick, lastRun, loaded>>

\* on_enter_off: redLight.off()
OnEnterOffRed ==
    /\ pc["button"] = "off_red"
    /\ redLight' = "off"
    /\ pc' = [pc EXCEPT !["button"] = "off_blue"]
    /\ UNCHANGED <<callback, current_state, setPoint, blueLight, endDisplay,
                   temp, sid, cmd, loopVars, history, loaded>>

\* on_enter_off: blueLight.off()
OnEnterOffBlue ==
    /\ pc["button"] = "off_blue"
    /\ blueLight' = "off"
    /\ pc' = [pc EXCEPT !["button"] = "idle"]
    /\ callback' = "none"
    /\ UNCHANGED <<current_state, setPoint, redLight, endDisplay, temp, sid,
                   cmd, loopVars, history, loaded>>

\* a variant that keeps the setpoint within InitialSetPoint - 2 ..
\* InitialSetPoint + 2
AdjustSetPointClamped(max, d) ==
    /\ pc["button"] = "idle"
    /\ presses < max
    /\ presses' = presses + 1
    /\ increases' = increases + (IF d = 1 THEN 1 ELSE 0)
    /\ quietTick' = FALSE
    /\ callback' = "adjust"
    /\ setPoint' = IF setPoint + d > InitialSetPoint + 2
                      THEN InitialSetPoint + 2
                      ELSE IF setPoint + d < InitialSetPoint - 2
                             THEN InitialSetPoint - 2
                             ELSE setPoint + d
    /\ held' = held \cup {<<current_state, setPoint'>>}
    /\ pc' = [pc EXCEPT !["button"] = "ul_temp"]
    /\ UNCHANGED <<current_state, redLight, blueLight, endDisplay, temp, sid,
                   cmd, loopVars, cycles, lastRun, loaded>>

\* self.setPoint += d, then updateLights (d is 1 or -1)
AdjustSetPoint(max, d) ==
    /\ pc["button"] = "idle"
    /\ presses < max
    /\ presses' = presses + 1
    /\ increases' = increases + (IF d = 1 THEN 1 ELSE 0)
    /\ quietTick' = FALSE
    /\ callback' = "adjust"
    /\ setPoint' = setPoint + d
    /\ held' = held \cup {<<current_state, setPoint + d>>}
    /\ pc' = [pc EXCEPT !["button"] = "ul_temp"]
    /\ UNCHANGED <<current_state, redLight, blueLight, endDisplay, temp, sid,
                   cmd, loopVars, cycles, lastRun, loaded>>

ProcessTempIncButton(max) == AdjustSetPoint(max, 1)

\* self.setPoint += d when another callback may run at the same time: the
\* statement first reads the attribute ...
SetPointLoad(b, max, d) ==
    /\ pc[b] = "idle"
    /\ presses < max
    /\ presses' = presses + 1
    /\ increases' = increases + (IF d = 1 THEN 1 ELSE 0)
    /\ quietTick' = FALSE
    /\ callback' = IF b = "button" THEN "adjust" ELSE callback
    /\ loaded' = [loaded EXCEPT ![b] = setPoint]
    /\ pc' = [pc EXCEPT ![b] = IF d = 1 THEN "inc_store" ELSE "dec_store"]
    /\ UNCHANGED <<shared, temp, sid, cmd, loopVars, held, cycles, lastRun>>

\* ... and then writes the sum back, and updateLights follows
SetPointStore(b) ==
    /\ pc[b] \in {"inc_store", "dec_store"}
    /\ setPoint' = loaded[b] + (IF pc[b] = "inc_store" THEN 1 ELSE -1)
    /\ held' = held \cup {<<current_state, setPoint'>>}
    /\ loaded' = [loaded EXCEPT ![b] = 0]
    /\ pc' = [pc EXCEPT ![b] = "ul_temp"]
    /\ UNCHANGED <<callback, current_state, redLight, blueLight, endDisplay,
                   temp, sid, cmd, loopVars, cycles, presses, increases,
                   quietTick, lastRun>>

ProcessTempDecButton(max) == AdjustSetPoint(max, -1)

\* -------------------------------------------------------- manageMyDisplay
\* while not self.endDisplay (sleep(1) has returned, or the thread starts)
LoopTop(max) ==
    /\ pc["display"] = "top"
    /\ IF endDisplay
         THEN /\ pc' = [pc EXCEPT !["display"] = "cleanup"]
              /\ UNCHANGED <<tick, quietTick>>
         ELSE /\ tick < max
              /\ tick' = tick + 1
              /\ quietTick' = (pc["button"] = "idle")
              /\ pc' = [pc EXCEPT !["display"] = "line2"]
    /\ UNCHANGED <<callback, shared, locals, counter, altCounter, line_2, output,
                   screen, updates, sent, held, cycles, presses, increases,
                   lastRun>>

\* Line2Temperature without altCounter = altCounter + 1
Line2TemperatureKeepsCounter ==
    /\ pc["display"] = "line2"
    /\ altCounter < TempLines
    /\ \E r \in Readings :
          line_2' = [None EXCEPT !.kind = "T", !.temp = getFahrenheit(r),
                        !.text = <<"T:", format1f(getFahrenheit(r)), "F">>]
    /\ pc' = [pc EXCEPT !["display"] = "screen"]
    /\ UNCHANGED <<callback, shared, locals, counter, altCounter, output,
                   screen, tick, updates, sent, history>>

\* altCounter < 6: line_2 = f"T:{self.getFahrenheit():0.1f}F"
Line2Temperature ==
    /\ pc["display"] = "line2"
    /\ altCounter < TempLines
    /\ \E r \in Readings :
          line_2' = [None EXCEPT !.kind = "T", !.temp = getFahrenheit(r),
                        !.text = <<"T:", format1f(getFahrenheit(r)), "F">>]
    /\ altCounter' = altCounter + 1
    /\ pc' = [pc EXCEPT !["display"] = "screen"]
    /\ UNCHANGED <<callback, shared, locals, counter, output, screen, tick,
                   updates, sent, history>>

\* thSensor.temperature raises while line_2 is composed
Line2TemperatureFails ==
    /\ pc["display"] = "line2"
    /\ altCounter < TempLines
    /\ Raise("display", "sensor_error")
    /\ UNCHANGED <<shared, loopVars, history>>

\* else: line_2 = f"ST:{tsm.current_state.id} ..." reads the state first
Line2State ==
    /\ pc["display"] = "line2"
    /\ altCounter >= TempLines
    /\ line_2' = [None EXCEPT !.kind = "ST", !.id = current_state,
                              !.text = <<"ST:", current_state, " Set:">>]
    /\ pc' = [pc EXCEPT !["display"] = "line2_sp"]
    /\ UNCHANGED <<callback, shared, locals, counter, altCounter, output, screen,
                   tick, updates, sent, history>>

\* a variant that runs updateLights one tick early, at altCounter >= 10
Line2SetPointResyncsEarly ==
    /\ pc["display"] = "line2_sp"
    /\ line_2' = [line_2 EXCEPT !.sp = setPoint,
                                !.text = line_2.text \o <<setPoint, "F">>]
    /\ altCounter' = altCounter + 1
    /\ pc' = [pc EXCEPT !["display"] =
                 IF altCounter + 1 >= AltWindow - 1 THEN "ul_temp" ELSE "screen"]
    /\ UNCHANGED <<callback, shared, locals, counter, output, screen, tick,
                   updates, sent, history>>

\* a variant that reads the class attribute TemperatureMachine.setPoint
Line2SetPointClassAttribute ==
    /\ pc["display"] = "line2_sp"
    /\ line_2' = [line_2 EXCEPT !.sp = InitialSetPoint,
                                !.text = line_2.text \o <<InitialSetPoint, "F">>]
    /\ altCounter' = altCounter + 1
    /\ pc' = [pc EXCEPT !["display"] =
                 IF altCounter + 1 >= AltWindow THEN "ul_temp" ELSE "screen"]
    /\ UNCHANGED <<callback, shared, locals, counter, output, screen, tick,
                   updates, sent, history>>

\* ... then f"... Set:{tsm.setPoint}F"; altCounter = altCounter + 1;
\* if(altCounter >= 11): self.updateLights()
Line2SetPoint ==
    /\ pc["display"] = "line2_sp"
    /\ line_2' = [line_2 EXCEPT !.sp = setPoint,
                                !.text = line_2.text \o <<setPoint, "F">>]
    /\ altCounter' = altCounter + 1
    /\ pc' = [pc EXCEPT !["display"] =
                 IF altCounter + 1 >= AltWindow THEN "ul_temp" ELSE "screen"]
    /\ UNCHANGED <<callback, shared, locals, counter, output, screen, tick,
                   updates, sent, history>>

\* screen.updateScreen(line_1 + line_2): lcd.clear(), lcd.message = message
UpdateScreen ==
    /\ pc["display"] = "screen"
    /\ screen' = line_2.kind
    /\ line_2' = None
    /\ updates' = updates + 1
    /\ pc' = [pc EXCEPT !["display"] = "report"]
    /\ UNCHANGED <<callback, shared, locals, counter, altCounter, output, tick,
                   sent, history>>

\* if((counter % 30) == 0) ... else: counter = counter + 1; sleep(1)
Report ==
    /\ pc["display"] = "report"
    /\ IF counter % ReportEvery = 0
         THEN /\ pc' = [pc EXCEPT !["display"] = "ser_id"]
              /\ UNCHANGED counter
         ELSE /\ counter' = counter + 1
              /\ pc' = [pc EXCEPT !["display"] = "top"]
    /\ UNCHANGED <<callback, shared, locals, altCounter, line_2, output, screen,
                   tick, updates, sent, history>>

\* setupSerialOutput: f"{tsm.current_state.id},..."
SerialState ==
    /\ pc["display"] = "ser_id"
    /\ output' = [None EXCEPT !.kind = "report", !.id = current_state,
                              !.text = <<current_state, ",">>]
    /\ pc' = [pc EXCEPT !["display"] = "ser_temp"]
    /\ UNCHANGED <<callback, shared, locals, counter, altCounter, line_2, screen,
                   tick, updates, sent, history>>

\* setupSerialOutput: f"...,{self.getFahrenheit():0.1f},..."
SerialTemperature ==
    /\ pc["display"] = "ser_temp"
    /\ \E r \in Readings :
          output' = [output EXCEPT !.temp = getFahrenheit(r),
                                   !.text = output.text \o
                                      <<format1f(getFahrenheit(r)), ",">>]
    /\ pc' = [pc EXCEPT !["display"] = "ser_sp"]
    /\ UNCHANGED <<callback, shared, locals, counter, altCounter, line_2, screen,
                   tick, updates, sent, history>>

\* thSensor.temperature raises while the report is composed
SerialTemperatureFails ==
    /\ pc["display"] = "ser_temp"
    /\ Raise("display", "sensor_error")
    /\ UNCHANGED <<shared, loopVars, history>>

\* setupSerialOutput: f"...,{self.setPoint}"
SerialSetPoint ==
    /\ pc["display"] = "ser_sp"
    /\ output' = [output EXCEPT !.sp = setPoint,
                                !.text = output.text \o <<setPoint>>]
    /\ pc' = [pc EXCEPT !["display"] = "ser_write"]
    /\ UNCHANGED <<callback, shared, locals, counter, altCounter, line_2, screen,
                   tick, updates, sent, history>>

\* SerialWrite without the reset of counter
SerialWriteKeepsCounter ==
    /\ pc["display"] = "ser_write"
    /\ sent' = sent \cup {tick}
    /\ output' = None
    /\ pc' = [pc EXCEPT !["display"] = "top"]
    /\ UNCHANGED <<callback, shared, locals, counter, altCounter, line_2,
                   screen, tick, updates, history>>

\* ser.write(...) returns; counter = 1; sleep(1)
SerialWrite ==
    /\ pc["display"] = "ser_write"
    /\ sent' = sent \cup {tick}
    /\ output' = None
    /\ counter' = 1
    /\ pc' = [pc EXCEPT !["display"] = "top"]
    /\ UNCHANGED <<callback, shared, locals, altCounter, line_2, screen, tick,
                   updates, history>>

\* ser.write(...) raises (serial.SerialException)
SerialWriteFails ==
    /\ pc["display"] = "ser_write"
    /\ Raise("display", "serial_error")
    /\ UNCHANGED <<shared, loopVars, history>>

\* screen.cleanupDisplay(): lcd.clear() and the six deinit() calls
CleanupDisplay ==
    /\ pc["display"] = "cleanup"
    /\ screen' = "cleared"
    /\ pc' = [pc EXCEPT !["display"] = "done"]
    /\ UNCHANGED <<callback, shared, locals, counter, altCounter, line_2, output,
                   tick, updates, sent, history>>

\* ------------------------------------------------------------ main thread
\* except KeyboardInterrupt: repeat = False; tsm.endDisplay = True
KeyboardInterrupt ==
    /\ ~endDisplay
    /\ endDisplay' = TRUE
    /\ UNCHANGED <<callback, current_state, setPoint, redLight, blueLight, pc,
                   locals, loopVars, history>>

\* ---------------------------------------------------------- specifications
\* the steps of the thread that runs the button callbacks
ButtonStep(max) ==
    \/ ProcessTempStateButton(max)
    \/ ProcessTempIncButton(max)
    \/ ProcessTempDecButton(max)
    \/ Transition
    \/ OnEnterOffRed
    \/ OnEnterOffBlue
    \/ UpdateLightsRead("button")
    \/ UpdateLightsReadFails("button")
    \/ UpdateLightsRedOff("button")
    \/ UpdateLightsBlueOff("button")
    \/ UpdateLightsMatch("button")
    \/ UpdateLightsCompare("button")
    \/ UpdateLightsCommand("button")

\* the steps of the thread that runs manageMyDisplay
DisplayStep(max) ==
    \/ LoopTop(max)
    \/ Line2Temperature
    \/ Line2TemperatureFails
    \/ Line2State
    \/ Line2SetPoint
    \/ UpdateLightsRead("display")
    \/ UpdateLightsReadFails("display")
    \/ UpdateLightsRedOff("display")
    \/ UpdateLightsBlueOff("display")
    \/ UpdateLightsMatch("display")
    \/ UpdateLightsCompare("display")
    \/ UpdateLightsCommand("display")
    \/ UpdateScreen
    \/ Report
    \/ SerialState
    \/ SerialTemperature
    \/ SerialTemperatureFails
    \/ SerialSetPoint
    \/ SerialWrite
    \/ SerialWriteFails
    \/ CleanupDisplay

\* Spec: the threads interleave step by step, as the source (which takes no
\* lock) allows.
Next ==
    \/ ButtonStep(MaxPresses)
    \/ DisplayStep(MaxTick)
    \/ KeyboardInterrupt

Spec == Init /\ [][Next]_vars

\* SpecSeq: the same steps when operations do not overlap: a button callback
\* runs only between two iterations of the display loop (while the display
\* thread is in sleep(1), or after it has ended), and an iteration runs only
\* while no callback is in progress.
BetweenIterations == pc["display"] \in {"top", "done", "sensor_error", "serial_error"}

NoCallback == pc["button"] = "idle"

NextSeq ==
    \/ BetweenIterations /\ ProcessTempStateButton(MaxPressesSeq)
    \/ BetweenIterations /\ ProcessTempIncButton(MaxPressesSeq)
    \/ BetweenIterations /\ ProcessTempDecButton(MaxPressesSeq)
    \/ BetweenIterations /\ Transition
    \/ BetweenIterations /\ OnEnterOffRed
    \/ BetweenIterations /\ OnEnterOffBlue
    \/ BetweenIterations /\ UpdateLightsRead("button")
    \/ BetweenIterations /\ UpdateLightsReadFails("button")
    \/ BetweenIterations /\ UpdateLightsRedOff("button")
    \/ BetweenIterations /\ UpdateLightsBlueOff("button")
    \/ BetweenIterations /\ UpdateLightsMatch("button")
    \/ BetweenIterations /\ UpdateLightsCompare("button")
    \/ BetweenIterations /\ UpdateLightsCommand("button")
    \/ NoCallback /\ LoopTop(MaxTickSeq)
    \/ NoCallback /\ Line2Temperature
    \/ NoCallback /\ Line2TemperatureFails
    \/ NoCallback /\ Line2State
    \/ NoCallback /\ Line2SetPoint
    \/ NoCallback /\ UpdateLightsRead("display")
    \/ NoCallback /\ UpdateLightsReadFails("display")
    \/ NoCallback /\ UpdateLightsRedOff("display")
    \/ NoCallback /\ UpdateLightsBlueOff("display")
    \/ NoCallback /\ UpdateLightsMatch("display")
    \/ NoCallback /\ UpdateLightsCompare("display")
    \/ NoCallback /\ UpdateLightsCommand("display")
    \/ NoCallback /\ UpdateScreen
    \/ NoCallback /\ Report
    \/ NoCallback /\ SerialState
    \/ NoCallback /\ SerialTemperature
    \/ NoCallback /\ SerialTemperatureFails
    \/ NoCallback /\ SerialSetPoint
    \/ NoCallback /\ SerialWrite
    \/ NoCallback /\ SerialWriteFails
    \/ NoCallback /\ CleanupDisplay
    \/ KeyboardInterrupt

SpecSeq == Init /\ [][NextSeq]_vars

\* SpecRuns: the steps of SpecSeq up to the first serial report, with every
\* updateLights call that returns recorded in lastRun.
InitRuns == Start(Threads, NoRun)

NextRuns ==
    \/ BetweenIterations /\ ProcessTempStateButton(MaxPressesRuns)
    \/ BetweenIterations /\ ProcessTempIncButton(MaxPressesRuns)
    \/ BetweenIterations /\ ProcessTempDecButton(MaxPressesRuns)
    \/ BetweenIterations /\ Transition
    \/ BetweenIterations /\ OnEnterOffRed
    \/ BetweenIterations /\ OnEnterOffBlue
    \/ BetweenIterations /\ UpdateLightsRead("button")
    \/ BetweenIterations /\ UpdateLightsReadFails("button")
    \/ BetweenIterations /\ UpdateLightsRedOff("button")
    \/ BetweenIterations /\ UpdateLightsBlueOff("button")
    \/ BetweenIterations /\ UpdateLightsMatch("button")
    \/ BetweenIterations /\ UpdateLightsCompare("button")
    \/ BetweenIterations /\ UpdateLightsCommand("button")
    \/ NoCallback /\ LoopTop(MaxTickRuns)
    \/ NoCallback /\ Line2Temperature
    \/ NoCallback /\ Line2TemperatureFails
    \/ NoCallback /\ Line2State
    \/ NoCallback /\ Line2SetPoint
    \/ NoCallback /\ UpdateLightsRead("display")
    \/ NoCallback /\ UpdateLightsReadFails("display")
    \/ NoCallback /\ UpdateLightsRedOff("display")
    \/ NoCallback /\ UpdateLightsBlueOff("display")
    \/ NoCallback /\ UpdateLightsMatch("display")
    \/ NoCallback /\ UpdateLightsCompare("display")
    \/ NoCallback /\ UpdateLightsCommand("display")
    \/ NoCallback /\ UpdateScreen
    \/ NoCallback /\ Report
    \/ NoCallback /\ CleanupDisplay
    \/ KeyboardInterrupt

SpecRuns == InitRuns /\ [][NextRuns]_vars

\* SpecNoDebug: the program with line 99 reading DEBUG = False: the steps of
\* SpecSeq up to the first serial report, without failures of the sensor;
\* updateLights returns after blueLight.off() and never reaches its match
\* statement.
NextNoDebug ==
    \/ BetweenIterations /\ ProcessTempStateButton(MaxPressesRuns)
    \/ BetweenIterations /\ ProcessTempIncButton(MaxPressesRuns)
    \/ BetweenIterations /\ ProcessTempDecButton(MaxPressesRuns)
    \/ BetweenIterations /\ Transition
    \/ BetweenIterations /\ OnEnterOffRed
    \/ BetweenIterations /\ OnEnterOffBlue
    \/ BetweenIterations /\ UpdateLightsRead("button")
    \/ BetweenIterations /\ UpdateLightsRedOff("button")
    \/ BetweenIterations /\ UpdateLightsBlueOffIf("button", FALSE)
    \/ NoCallback /\ LoopTop(MaxTickRuns)
    \/ NoCallback /\ Line2Temperature
    \/ NoCallback /\ Line2State
    \/ NoCallback /\ Line2SetPoint
    \/ NoCallback /\ UpdateLightsRead("display")
    \/ NoCallback /\ UpdateLightsRedOff("display")
    \/ NoCallback /\ UpdateLightsBlueOffIf("display", FALSE)
    \/ NoCallback /\ UpdateScreen
    \/ NoCallback /\ Report
    \/ NoCallback /\ CleanupDisplay
    \/ KeyboardInterrupt

SpecNoDebug == Init /\ [][NextNoDebug]_vars

\* SpecNoFault: the interleavings of Spec in which the sensor and the serial
\* port never raise.
NextNoFault ==
    \/ ProcessTempStateButton(MaxPresses)
    \/ ProcessTempIncButton(MaxPresses)
    \/ ProcessTempDecButton(MaxPresses)
    \/ Transition
    \/ OnEnterOffRed
    \/ OnEnterOffBlue
    \/ UpdateLightsRead("button")
    \/ UpdateLightsRedOff("button")
    \/ UpdateLightsBlueOff("button")
    \/ UpdateLightsMatch("button")
    \/ UpdateLightsCompare("button")
    \/ UpdateLightsCommand("button")
    \/ LoopTop(MaxTick)
    \/ Line2Temperature
    \/ Line2State
    \/ Line2SetPoint
    \/ UpdateLightsRead("display")
    \/ UpdateLightsRedOff("display")
    \/ UpdateLightsBlueOff("display")
    \/ UpdateLightsMatch("display")
    \/ UpdateLightsCompare("display")
    \/ UpdateLightsCommand("display")
    \/ UpdateScreen
    \/ Report
    \/ SerialState
    \/ SerialTemperature
    \/ SerialSetPoint
    \/ SerialWrite
    \/ CleanupDisplay
    \/ KeyboardInterrupt

SpecNoFault == Init /\ [][NextNoFault]_vars

\* SpecOverlap: the callbacks of the red button (thread "button", which
\* also runs the green button's) and of the blue button (thread "button2")
\* are delivered on two threads and interleave step by step; the display
\* thread is not scheduled and the sensor does not fail.
InitOverlap == Start(Threads \cup Callbacks, Untracked)

NextOverlap ==
    \/ ProcessTempStateButton(MaxPressesOverlap)
    \/ Transition
    \/ OnEnterOffRed
    \/ OnEnterOffBlue
    \/ SetPointLoad("button", MaxPressesOverlap, 1)
    \/ SetPointLoad("button2", MaxPressesOverlap, -1)
    \/ \E b \in Callbacks : SetPointStore(b)
    \/ \E b \in Callbacks : UpdateLightsRead(b)
    \/ \E b \in Callbacks : UpdateLightsRedOff(b)
    \/ \E b \in Callbacks : UpdateLightsBlueOff(b)
    \/ \E b \in Callbacks : UpdateLightsMatch(b)
    \/ \E b \in Callbacks : UpdateLightsCompare(b)
    \/ \E b \in Callbacks : UpdateLightsCommand(b)

SpecOverlap == InitOverlap /\ [][NextOverlap]_vars

\* ------------------------------------------------------------ properties
\* thread t is inside updateLights
UpdatingLights(t) ==
    pc[t] \in {"ul_temp", "ul_red", "ul_blue", "ul_match", "ul_compare",
               "ul_command"}

\* no button callback, state transition or indicator derivation in progress
Quiescent == pc["button"] = "idle" /\ ~UpdatingLights("display")

\* the display thread has been ended by an exception
Crashed == pc["display"] \in {"sensor_error", "serial_error"}

\* the mode n steps after off in the order off, heat, cool
ModeAfter(n) == CASE n % 3 = 0 -> "off"
                  [] n % 3 = 1 -> "heat"
                  [] n % 3 = 2 -> "cool"

\* C1: after N cycle events the mode is off advanced N mod 3 steps in the
\* order off, heat, cool; every cycle event advances the mode (the one sent
\* last has not yet done so only while its transition is under way) and
\* nothing else changes the mode.
C1_ModeAfterCycles ==
    current_state = ModeAfter(IF pc["button"] = "transition"
                                THEN cycles - 1 ELSE cycles)

C1_Witness ==
    /\ cycles = 3
    /\ pc["button"] = "idle"
    /\ current_state = "off"

\* the reference table of the indicators: <<hot, cold>> for a mode, the floor
\* of the temperature and a setpoint
ReferenceLights(mode, t, sp) ==
    CASE mode = "heat" /\ t >= sp -> <<"on", "off">>
      [] mode = "heat" /\ t < sp -> <<"pulse", "off">>
      [] mode = "cool" /\ t <= sp -> <<"off", "on">>
      [] mode = "cool" /\ t > sp -> <<"off", "pulse">>

\* C2: when updateLights runs to completion without interleaving in mode heat
\* or cool, it leaves the indicators as the reference table says for the
\* mode, the setpoint and the floor of the temperature it read.
C2_UpdateLightsTable ==
    [][\A t \in Threads :
          (/\ UpdatingLights(t)
           /\ pc[t] # "ul_temp"
           /\ ~UpdatingLights(t)'
           /\ current_state \in {"heat", "cool"})
          => <<redLight', blueLight'>>
               = ReferenceLights(current_state, temp[t], setPoint)]_vars

\* heat, setpoint 72, 71.9F read: hot pulsing, cold off
C2_Witness ==
    /\ Quiescent
    /\ current_state = "heat"
    /\ setPoint = 72
    /\ redLight = "pulse"
    /\ blueLight = "off"

\* C3: every (mode, setpoint) pair the display thread puts into one status
\* line or one status report is a pair the controller held at some instant.
C3_NoTornRead ==
    /\ (line_2.kind = "ST" /\ pc["display"] # "line2_sp")
          => <<line_2.id, line_2.sp>> \in held
    /\ pc["display"] = "ser_write" => <<output.id, output.sp>> \in held

\* C4: whenever no callback, transition or indicator derivation is in
\* progress, the indicators are consistent with the mode: off has both off,
\* heat has cold off and hot on or pulsing, cool has hot off and cold on or
\* pulsing.
C4_IndicatorsMatchMode ==
    Quiescent =>
        /\ current_state = "off" => redLight = "off" /\ blueLight = "off"
        /\ current_state = "heat"
              => blueLight = "off" /\ redLight \in {"on", "pulse"}
        /\ current_state = "cool"
              => redLight = "off" /\ blueLight \in {"on", "pulse"}

\* the iterations whose report step is over
Reported(t) ==
    \/ t < tick
    \/ t = tick /\ pc["display"] \in {"top", "cleanup", "done"}

\* C5: with no failure, a report is transmitted on iteration t exactly when t
\* is a multiple of 30 (30, 60 and 90 within 90 iterations), and counter is 1
\* again after each transmission.
C5_ReportCadence ==
    ~Crashed =>
        /\ sent = {t \in 1..tick : t % 30 = 0 /\ Reported(t)}
        /\ (tick > 0 /\ tick % 30 = 0 /\ Reported(tick)) => counter = 1

C5_Witness ==
    /\ tick = 90
    /\ pc["display"] = "top"
    /\ sent = {30, 60, 90}
    /\ counter = 1

\* C6: a sensor read that raises during an iteration never ends the display
\* loop.
C6_SensorFailureNotFatal == pc["display"] # "sensor_error"

\* C7: a status transmission that fails never ends the display loop, and
\* counter is reset as after a transmission that succeeds.
C7_SerialFailureNotFatal == pc["display"] # "serial_error"

\* C8: whenever the mode is off and no operation is in progress, both
\* indicators are off.
C8_OffMeansBothOff ==
    (Quiescent /\ current_state = "off")
        => (redLight = "off" /\ blueLight = "off")

\* C9: when a cycle event taken in mode heat has completed, the hot indicator
\* is off; when one taken in mode cool has completed, the cold indicator is
\* off.
C9_ExitTurnsOff ==
    [][(callback = "cycle" /\ callback' = "none")
          => /\ current_state = "cool" => redLight' = "off"
             /\ current_state = "off" => blueLight' = "off"]_vars

\* the line shown on iteration t: the temperature on the first five
\* iterations of each window of ten, the state and setpoint on the last five
ExpectedLine(t) == IF (t - 1) % 10 < 5 THEN "T" ELSE "ST"

\* C10: on iterations 10k+1 .. 10k+5 the second row shows the temperature
\* line and on iterations 10k+6 .. 10k+10 the state and setpoint line; the
\* display is written exactly once per iteration (an iteration that an
\* exception ends may end before its write).
C10_DisplayAlternation ==
    /\ pc["display"] \in {"line2", "line2_sp", "screen"} \/ UpdatingLights("display")
          => updates = tick - 1
    /\ pc["display"] \in {"report", "ser_id", "ser_temp", "ser_sp",
                          "ser_write", "top", "cleanup"}
          => /\ updates = tick
             /\ tick > 0 => screen = ExpectedLine(tick)
    /\ pc["display"] = "done" => updates = tick
    /\ Crashed => updates \in {tick - 1, tick}
    /\ pc["display"] = "screen" => line_2.kind = ExpectedLine(tick)

C10_Witness ==
    /\ tick = 26
    /\ pc["display"] = "report"
    /\ screen = "ST"
    /\ updates = 26

\* C11: the display loop runs updateLights on an iteration exactly when the
\* iteration number is a multiple of 10, whatever the buttons do: an
\* iteration leaves its second-line step into updateLights iff its number is
\* a multiple of 10, and the display thread is inside updateLights only on
\* such an iteration. altCounter is within 1..10 at the start of every
\* iteration, and is 1 at the start of the iteration after a resync.
LeavesLine2 ==
    /\ pc["display"] \in {"line2", "line2_sp"}
    /\ pc'["display"] \notin {"line2", "line2_sp", "sensor_error"}

C11_CounterAtTickStart ==
    /\ pc["display"] = "line2" => altCounter = ((tick - 1) % 10) + 1
    /\ UpdatingLights("display") => tick % 10 = 0
    /\ pc["display"] \in {"screen", "report"} => altCounter = (tick % 10) + 1

C11_ResyncEveryTenTicks ==
    /\ []C11_CounterAtTickStart
    /\ [][LeavesLine2 => (pc'["display"] = "ul_temp" <=> tick % 10 = 0)]_vars

C11_Witness ==
    /\ tick = 21
    /\ pc["display"] = "line2"
    /\ altCounter = 1
    /\ presses = MaxPresses

\* C12: once endDisplay is set, the display loop is left and the display has
\* been cleared and released by then: a display thread that is out of its
\* loop after the flag was set has run cleanupDisplay.
LoopLeft ==
    pc["display"] \in {"done", "sensor_error", "serial_error"}

C12_ShutdownClearsDisplay ==
    (endDisplay /\ LoopLeft) => screen = "cleared"

\* C13: the setpoint starts at 72, processTempIncButton adds exactly 1 and
\* processTempDecButton subtracts exactly 1 with no bound applied, neither
\* changes the mode, and a cycle event leaves the setpoint alone: after i
\* increases, d decreases and any number of cycle events the setpoint is
\* 72 + i - d and the mode is the one the cycle events alone lead to.
decreases == presses - cycles - increases

C13_SetPointArithmetic ==
    /\ setPoint = InitialSetPoint + increases - decreases
    /\ current_state = ModeAfter(IF pc["button"] = "transition"
                                    THEN cycles - 1 ELSE cycles)

C13_Witness ==
    /\ increases = 1
    /\ decreases = 1
    /\ cycles = 1
    /\ setPoint = InitialSetPoint
    /\ current_state = "heat"
    /\ pc["button"] = "idle"

\* C14: a loop iteration that starts after every button callback dispatched
\* so far has completed uses the mode and the setpoint those callbacks left:
\* in its status line, in its updateLights run and in its serial report
\* (as long as no further callback is dispatched during the iteration). Only
\* an iteration in flight while a callback runs may use older values.
C14_TickSeesCompletedInput ==
    quietTick =>
       /\ pc["display"] = "line2_sp" => line_2.id = current_state
       /\ (line_2.kind = "ST" /\ pc["display"] # "line2_sp")
             => (line_2.id = current_state /\ line_2.sp = setPoint)
       /\ pc["display"] \in {"ul_compare", "ul_command"}
             => sid["display"] = current_state
       /\ pc["display"] = "ul_command"
             => cmd["display"] =
                   IF current_state = "heat"
                     THEN HeatCommand(temp["display"], setPoint)
                     ELSE CoolCommand(temp["display"], setPoint)
       /\ pc["display"] \in {"ser_temp", "ser_sp", "ser_write"}
             => output.id = current_state
       /\ pc["display"] = "ser_write" => output.sp = setPoint

C14_Witness ==
    /\ quietTick
    /\ presses = 2
    /\ pc["display"] = "ul_command"
    /\ line_2.id = "heat"
    /\ line_2.sp = InitialSetPoint + 1
    /\ sid["display"] = "heat"

\* C15: updateLights is idempotent: a call that runs with the same mode,
\* setpoint and temperature as the call before it sends the same indicator
\* commands and leaves the indicators in the same final state.
SameInputs(a, b) == <<a.id, a.sp, a.temp>> = <<b.id, b.sp, b.temp>>

C15_UpdateLightsIdempotent ==
    [][SameInputs(lastRun, lastRun')
         => <<lastRun'.light, lastRun'.cmd, lastRun'.red, lastRun'.blue>>
              = <<lastRun.light, lastRun.cmd, lastRun.red, lastRun.blue>>]_vars

C15_Witness ==
    /\ lastRun.repeat = 1
    /\ lastRun.id = "heat"
    /\ lastRun.cmd = "pulse"
    /\ redLight = "pulse"
    /\ pc["display"] = "screen"

\* C16: a sensor failure never reaches a button callback: a
\* processTempIncButton or processTempDecButton callback ends by returning
\* from updateLights, with the indicators derived from the setpoint it has
\* just changed, and never by the exception of the sensor read.
C16_CallbackSurvivesSensorFailure ==
    [][(callback = "adjust" /\ callback' = "none")
         => pc["button"] # "ul_temp"]_vars

\* the tenth nearest to a milli-degree value: the even one of the two when
\* they are equally near (ties to even), the upper one (ties up)
NearestTenth(milli, tiesToEven) ==
    LET lower == milli \div 100
        below == milli - (100 * lower)
        above == (100 * (lower + 1)) - milli
    IN  CASE below < above -> lower
          [] below > above -> lower + 1
          [] OTHER -> IF tiesToEven /\ lower % 2 = 0 THEN lower ELSE lower + 1

\* the message a report being composed must come to: mode, temperature with
\* one decimal, setpoint, separated by commas with none at the end
StatusMessage(tiesToEven) ==
    <<output.id, ",", NearestTenth(output.temp, tiesToEven), ",", output.sp>>

C18_NeverBothLit ==
    redLight = "off" \/ blueLight = "off"

\* C19: DEBUG only switches the logging: with DEBUG false updateLights still
\* leaves the indicators as with DEBUG true, so that, whenever no callback
\* and no updateLights call is in progress, the hot indicator is on or
\* pulsing in mode heat and the cold indicator is on or pulsing in mode cool.
C19_LightsWithoutDebug ==
    Quiescent =>
       /\ current_state = "heat" => redLight \in {"on", "pulse"}
       /\ current_state = "cool" => blueLight \in {"on", "pulse"}

\* C20: no setpoint update is lost when the callbacks of the red and the blue
\* button overlap: once all the callbacks dispatched have completed, after i
\* increases and d decreases, the setpoint is 72 + i - d.
C20_NoLostUpdate ==
    (\A b \in Callbacks : pc[b] = "idle")
       => setPoint = InitialSetPoint + increases - decreases

====
